---- MODULE Spec2Model ----
(***************************************************************************)
(* Model of the MSTREAM Flask application (src/flask_app_file.py): the     *)
(* SQLite table `videos`, the link resolver extract_drive_id and the       *)
(* request handlers home, upload and view.                                 *)
(*                                                                         *)
(* Text is modelled as a sequence of one-character strings, so that        *)
(* trimming, regular-expression search and SQL LIKE are computed character *)
(* by character.  Python's None and SQL's NULL are the value NULL.         *)
(***************************************************************************)
EXTENDS Integers, Sequences, FiniteSets, TLC

VARIABLES videos, seq, pc, req, local, resp, link, drive

vars == <<videos, seq, pc, req, local, resp, link, drive>>

-----------------------------------------------------------------------------
(* Text helpers                                                            *)

\* None / NULL: a value no text (sequence of one-character strings) equals.
NULL == <<"NULL">>

\* The characters str.strip() removes that occur in the modelled inputs.
Whitespace == {" ", "\t", "\n"}

\* The character class [A-Za-z0-9_-] of the resolver's patterns.
IdChars ==
    {"a","b","c","d","e","f","g","h","i","j","k","l","m",
     "n","o","p","q","r","s","t","u","v","w","x","y","z",
     "A","B","C","D","E","F","G","H","I","J","K","L","M",
     "N","O","P","Q","R","S","T","U","V","W","X","Y","Z",
     "0","1","2","3","4","5","6","7","8","9","_","-"}

\* The {25,} quantifier of every pattern of extract_drive_id.
MinIdLen == 25

\* n copies of the character c.
Run(c, n) == [i \in 1..n |-> c]

RECURSIVE LStrip(_)
LStrip(s) ==
    IF s # <<>> /\ Head(s) \in Whitespace THEN LStrip(Tail(s)) ELSE s

RECURSIVE RStrip(_)
RStrip(s) ==
    IF s # <<>> /\ s[Len(s)] \in Whitespace
    THEN RStrip(SubSeq(s, 1, Len(s) - 1))
    ELSE s

\* str.strip()
Strip(s) == LStrip(RStrip(s))

\* s contains t as a contiguous subsequence (exact, case-sensitive).
Contains(s, t) ==
    \E i \in 1..(Len(s) - Len(t) + 1) : SubSeq(s, i, i + Len(t) - 1) = t

-----------------------------------------------------------------------------
(* Link Resolver: extract_drive_id                                         *)

\* Length of the longest run of IdChars of s that starts at position i.
RECURSIVE RunLen(_, _)
RunLen(s, i) ==
    IF i <= Len(s) /\ s[i] \in IdChars THEN 1 + RunLen(s, i + 1) ELSE 0

\* Mutant: the quantifier one short, {24,}.
MatchStarts_OneShort(lit, s) ==
    {i \in 1..(Len(s) - Len(lit) + 1) :
        /\ SubSeq(s, i, i + Len(lit) - 1) = lit
        /\ RunLen(s, i + Len(lit)) >= MinIdLen - 1}

\* Positions where re.search can match  lit([A-Za-z0-9_-]{25,}) : the literal
\* lit occurs there and at least MinIdLen identifier characters follow it.
MatchStarts(lit, s) ==
    {i \in 1..(Len(s) - Len(lit) + 1) :
        /\ SubSeq(s, i, i + Len(lit) - 1) = lit
        /\ RunLen(s, i + Len(lit)) >= MinIdLen}

\* m.group(1) of re.search(lit + '([A-Za-z0-9_-]{25,})', s), or NULL: the
\* leftmost match, its greedy group taking the whole run.
SearchGroup(lit, s) ==
    IF MatchStarts(lit, s) = {} THEN NULL
    ELSE LET i == CHOOSE j \in MatchStarts(lit, s) :
                      \A k \in MatchStarts(lit, s) : j <= k
             b == i + Len(lit)
         IN  SubSeq(s, b, b + RunLen(s, b) - 1)

\* The literal prefixes of the four patterns, in list order.
patterns ==
    << <<"/","d","/">>,
       <<"i","d","=">>,
       <<"d","r","i","v","e",".","g","o","o","g","l","e",".","c","o","m",
         "/","o","p","e","n","?","i","d","=">>,
       <<"f","i","l","e","/","d","/">> >>

\* re.fullmatch(r'[A-Za-z0-9_-]{25,}', s)
FullMatchId(s) == Len(s) >= MinIdLen /\ \A i \in 1..Len(s) : s[i] \in IdChars

\* The for-loop over the patterns from index p on, then the bare-id test.
RECURSIVE ExtractFrom(_, _)
ExtractFrom(p, l) ==
    IF p > Len(patterns)
    THEN IF FullMatchId(Strip(l)) THEN Strip(l) ELSE NULL
    ELSE IF SearchGroup(patterns[p], l) # NULL
         THEN SearchGroup(patterns[p], l)
         ELSE ExtractFrom(p + 1, l)

extract_drive_id(l) ==
    IF l = NULL \/ l = <<>> THEN NULL ELSE ExtractFrom(1, l)

-----------------------------------------------------------------------------
(* SQL helpers over the table `videos`                                     *)

UpperSeq ==
    <<"A","B","C","D","E","F","G","H","I","J","K","L","M",
      "N","O","P","Q","R","S","T","U","V","W","X","Y","Z">>

LowerSeq ==
    <<"a","b","c","d","e","f","g","h","i","j","k","l","m",
      "n","o","p","q","r","s","t","u","v","w","x","y","z">>

\* SQLite's LIKE folds the case of ASCII letters.
Lower(c) ==
    IF \E i \in 1..Len(UpperSeq) : UpperSeq[i] = c
    THEN LowerSeq[CHOOSE i \in 1..Len(UpperSeq) : UpperSeq[i] = c]
    ELSE c

\* SQLite's  s LIKE p  for non-NULL text: % matches any run of characters,
\* _ matches any one character, any other character matches itself up to case.
RECURSIVE LikeMatch(_, _)
LikeMatch(p, s) ==
    IF p = <<>> THEN s = <<>>
    ELSE IF Head(p) = "%"
         THEN LikeMatch(Tail(p), s) \/ (s # <<>> /\ LikeMatch(p, Tail(s)))
         ELSE /\ s # <<>>
              /\ (Head(p) = "_" \/ Lower(Head(p)) = Lower(Head(s)))
              /\ LikeMatch(Tail(p), Tail(s))

\* x LIKE p  as a WHERE term: NULL LIKE p is NULL, which selects nothing.
SqlLike(x, p) == x # NULL /\ LikeMatch(p, x)

\* The row of S with the greatest id (id is the primary key).
MaxById(S) == CHOOSE v \in S : \A w \in S : w.id <= v.id

\* ORDER BY id DESC
RECURSIVE OrderByIdDesc(_)
OrderByIdDesc(S) ==
    IF S = {} THEN <<>>
    ELSE <<MaxById(S)>> \o OrderByIdDesc(S \ {MaxById(S)})

\* The first row of S under  ORDER BY likes DESC, id DESC.
MaxByLikesId(S) ==
    CHOOSE v \in S : \A w \in S :
        w.likes < v.likes \/ (w.likes = v.likes /\ w.id <= v.id)

\* ORDER BY likes DESC, id DESC
RECURSIVE OrderByLikesDesc(_)
OrderByLikesDesc(S) ==
    IF S = {} THEN <<>>
    ELSE <<MaxByLikesId(S)>> \o OrderByLikesDesc(S \ {MaxByLikesId(S)})

\* LIMIT n
Limit(s, n) == SubSeq(s, 1, IF Len(s) < n THEN Len(s) ELSE n)

\* The ids of a fetched row list.
IdsOf(rows) == {rows[i].id : i \in 1..Len(rows)}

\* fetchone() of  SELECT ... FROM videos WHERE id = ? : the row or None.
NoRow == [id |-> 0, title |-> NULL, drive_id |-> NULL, uploader |-> NULL,
          likes |-> 0, views |-> 0]

SelectById(id) ==
    IF \E v \in videos : v.id = id
    THEN CHOOSE v \in videos : v.id = id
    ELSE NoRow

-----------------------------------------------------------------------------
(* Requests.  Each element of Reqs is one HTTP request served by its own    *)
(* thread with its own connection; pc is its position in its handler.       *)
(* A statement executed outside a transaction, and a write together with    *)
(* its commit, is one atomic step of the database.                          *)

\* Requests in one behaviour.
NumReqs == 3

Reqs == 1..NumReqs

\* The "LIMIT 10" / "< 10" / "10 - len(watch_next)" of the watch-next list.
WatchNextLimit == 10

NoReq ==
    [op |-> "none", method |-> "", title |-> <<>>, link |-> <<>>,
     name |-> <<>>, vid_id |-> 0, search |-> <<>>, sort |-> ""]

NoLocal ==
    [title |-> <<>>, drive_id |-> NULL, name |-> NULL, row |-> NoRow,
     updated_views |-> 0, watch_next |-> <<>>]

NoResp ==
    [kind |-> "none", error |-> "", videos |-> <<>>, row |-> NoRow,
     updated_views |-> 0, watch_next |-> <<>>]

\* A request is numbered when it arrives: r arrives after r - 1.
Arrives(r) == pc[r] = "idle" /\ (IF r = 1 THEN TRUE ELSE pc[r - 1] # "idle")

Finish(r, request, response) ==
    /\ pc' = [pc EXCEPT ![r] = "done"]
    /\ req' = [req EXCEPT ![r] = request]
    /\ local' = [local EXCEPT ![r] = NoLocal]
    /\ resp' = [resp EXCEPT ![r] = response]

\* Mutant: the sort parameter ignored.
HomeRows_SortIgnored(search, sort) ==
    LET search_query == Strip(search)
        param == <<"%">> \o search_query \o <<"%">>
        hits == {v \in videos :
                    SqlLike(v.title, param) \/ SqlLike(v.uploader, param)}
    IN  OrderByIdDesc(hits)

\* ---- home: GET /?search=..&sort=.. ----
HomeRows(search, sort) ==
    LET search_query == Strip(search)
        param == <<"%">> \o search_query \o <<"%">>
        hits == {v \in videos :
                    SqlLike(v.title, param) \/ SqlLike(v.uploader, param)}
    IN  IF sort = "likes" THEN OrderByLikesDesc(hits) ELSE OrderByIdDesc(hits)

home(r, search, sort) ==
    /\ Arrives(r)
    /\ Finish(r, [NoReq EXCEPT !.op = "home", !.method = "GET",
                               !.search = search, !.sort = sort],
                 [NoResp EXCEPT !.kind = "home",
                                !.videos = HomeRows(search, sort)])
    /\ UNCHANGED <<videos, seq, link, drive>>

\* ---- upload: GET /upload renders the empty form ----
UploadGet(r) ==
    /\ Arrives(r)
    /\ Finish(r, [NoReq EXCEPT !.op = "upload", !.method = "GET"],
                 [NoResp EXCEPT !.kind = "upload_form"])
    /\ UNCHANGED <<videos, seq, link, drive>>

ErrTitle == "Title is required."
ErrLink == "Google Drive link is required."
ErrInvalid == "Invalid Google Drive link. Please provide a valid shareable link."
ErrDuplicate == "This video has already been uploaded."

\* Mutant: upload without the duplicate SELECT.
UploadError_NoDuplicateCheck(title, lnk) ==
    IF Strip(title) = <<>> THEN ErrTitle
    ELSE IF Strip(lnk) = <<>> THEN ErrLink
    ELSE IF extract_drive_id(Strip(lnk)) = NULL THEN ErrInvalid
    ELSE ""

\* Mutant: the link validated before the title.
UploadError_LinkFirst(title, lnk) ==
    IF Strip(lnk) = <<>> THEN ErrLink
    ELSE IF Strip(title) = <<>> THEN ErrTitle
    ELSE IF extract_drive_id(Strip(lnk)) = NULL THEN ErrInvalid
    ELSE IF \E v \in videos : v.drive_id = extract_drive_id(Strip(lnk))
         THEN ErrDuplicate
         ELSE ""

\* The error upload returns before inserting, "" when it goes on to insert:
\* the validations, the resolver, then the duplicate SELECT.
UploadError(title, lnk) ==
    IF Strip(title) = <<>> THEN ErrTitle
    ELSE IF Strip(lnk) = <<>> THEN ErrLink
    ELSE IF extract_drive_id(Strip(lnk)) = NULL THEN ErrInvalid
    ELSE IF \E v \in videos : v.drive_id = extract_drive_id(Strip(lnk))
         THEN ErrDuplicate
         ELSE ""

\* ---- upload: POST /upload up to and including the duplicate SELECT ----
UploadCheck(r, title, lnk, name) ==
    LET request == [NoReq EXCEPT !.op = "upload", !.method = "POST",
                                 !.title = title, !.link = lnk, !.name = name]
        err == UploadError(title, lnk)
    IN  /\ Arrives(r)
        /\ IF err # ""
           THEN Finish(r, request, [NoResp EXCEPT !.kind = "upload_form",
                                                  !.error = err])
           ELSE /\ pc' = [pc EXCEPT ![r] = "upload_checked"]
                /\ req' = [req EXCEPT ![r] = request]
                /\ local' = [local EXCEPT ![r] =
                       [NoLocal EXCEPT
                          !.title = Strip(title),
                          !.drive_id = extract_drive_id(Strip(lnk)),
                          !.name = IF Strip(name) = <<>> THEN NULL
                                   ELSE Strip(name)]]
                /\ resp' = resp
        /\ UNCHANGED <<videos, seq, link, drive>>

\* Mutant: the submitted link stored in place of the resolved identifier.
InsertedRow_RawLink(r) ==
    [id |-> seq + 1, title |-> local[r].title,
     drive_id |-> Strip(req[r].link), uploader |-> local[r].name,
     likes |-> 0, views |-> 0]

\* The row INSERT adds: AUTOINCREMENT gives it the id after the largest id
\* ever assigned, kept in sqlite_sequence (seq).
InsertedRow(r) ==
    [id |-> seq + 1, title |-> local[r].title,
     drive_id |-> local[r].drive_id, uploader |-> local[r].name,
     likes |-> 0, views |-> 0]

\* ---- upload: INSERT, commit, redirect ----
UploadInsert(r) ==
    /\ pc[r] = "upload_checked"
    /\ videos' = videos \cup {InsertedRow(r)}
    /\ seq' = seq + 1
    /\ Finish(r, req[r], [NoResp EXCEPT !.kind = "redirect"])
    /\ UNCHANGED <<link, drive>>

\* ---- view: the SELECT of the row, 404 when there is none ----
ViewFetch(r, vid_id) ==
    LET request == [NoReq EXCEPT !.op = "view", !.method = "GET",
                                 !.vid_id = vid_id]
        row == SelectById(vid_id)
    IN  /\ Arrives(r)
        /\ IF row = NoRow
           THEN Finish(r, request, [NoResp EXCEPT !.kind = "not_found"])
           ELSE /\ pc' = [pc EXCEPT ![r] = "view_fetched"]
                /\ req' = [req EXCEPT ![r] = request]
                /\ local' = [local EXCEPT ![r] = [NoLocal EXCEPT !.row = row]]
                /\ resp' = resp
        /\ UNCHANGED <<videos, seq, link, drive>>

\* Mutant: the fetched row saved back whole with its count plus one.
UpdateViews_SaveFetchedRow(r) ==
    {IF v.id = req[r].vid_id
     THEN [local[r].row EXCEPT !.views = local[r].row.views + 1] ELSE v :
        v \in videos}

\* Mutant: the count fetched with the row written back plus one.
UpdateViews_ReadThenWrite(r) ==
    {IF v.id = req[r].vid_id
     THEN [v EXCEPT !.views = local[r].row.views + 1] ELSE v : v \in videos}

\* Mutant: the UPDATE without its WHERE clause.
UpdateViews_NoWhere(r) ==
    {[v EXCEPT !.views = v.views + 1] : v \in videos}

\* UPDATE videos SET views = views + 1 WHERE id = ?
UpdateViews(r) ==
    {IF v.id = req[r].vid_id THEN [v EXCEPT !.views = v.views + 1] ELSE v :
        v \in videos}

\* ---- view: the UPDATE and its commit ----
ViewUpdate(r) ==
    /\ pc[r] = "view_fetched"
    /\ videos' = UpdateViews(r)
    /\ pc' = [pc EXCEPT ![r] = "view_updated"]
    /\ UNCHANGED <<seq, req, local, resp, link, drive>>

\* ---- view: SELECT views ... to get the updated count ----
ViewReread(r) ==
    /\ pc[r] = "view_updated"
    /\ local' = [local EXCEPT
                   ![r].updated_views = SelectById(req[r].vid_id).views]
    /\ pc' = [pc EXCEPT ![r] = "view_reread"]
    /\ UNCHANGED <<videos, seq, req, resp, link, drive>>

\* 1) videos by same uploader (exclude current), when uploader is truthy.
SameUploader(uploader, vid_id) ==
    IF uploader = NULL \/ uploader = <<>> THEN <<>>
    ELSE Limit(OrderByIdDesc({v \in videos :
                   v.uploader = uploader /\ v.id # vid_id}), WatchNextLimit)

\* ---- view: the same-uploader query ----
ViewSame(r) ==
    /\ pc[r] = "view_reread"
    /\ local' = [local EXCEPT ![r].watch_next =
                   SameUploader(local[r].row.uploader, req[r].vid_id)]
    /\ pc' = [pc EXCEPT ![r] = "view_same"]
    /\ UNCHANGED <<videos, seq, req, resp, link, drive>>

\* Mutant: the fill query without its  id NOT IN (...)  term.
FillOthers_NoExclusion(watch_next, vid_id) ==
    IF Len(watch_next) < WatchNextLimit
    THEN watch_next \o
         Limit(OrderByIdDesc({v \in videos : v.id # vid_id}),
               WatchNextLimit - Len(watch_next))
    ELSE watch_next

\* 2) fill to 10 with recent others (exclude current and already included).
FillOthers(watch_next, vid_id) ==
    IF Len(watch_next) < WatchNextLimit
    THEN watch_next \o
         Limit(OrderByIdDesc({v \in videos :
                   v.id # vid_id /\ v.id \notin IdsOf(watch_next)}),
               WatchNextLimit - Len(watch_next))
    ELSE watch_next

\* ---- view: the fill query and the rendered page ----
ViewFill(r) ==
    /\ pc[r] = "view_same"
    /\ Finish(r, req[r],
              [NoResp EXCEPT !.kind = "view", !.row = local[r].row,
                  !.updated_views = local[r].updated_views,
                  !.watch_next = FillOthers(local[r].watch_next,
                                            req[r].vid_id)])
    /\ UNCHANGED <<videos, seq, link, drive>>

\* ---- like: POST /like/<id>, called by the watch page's like() script ----
RegisterLike(r, vid_id) ==
    /\ Arrives(r)
    /\ videos' = {IF v.id = vid_id THEN [v EXCEPT !.likes = v.likes + 1]
                  ELSE v : v \in videos}
    /\ Finish(r, [NoReq EXCEPT !.op = "like", !.method = "POST",
                               !.vid_id = vid_id],
                 [NoResp EXCEPT !.kind =
                     IF SelectById(vid_id) = NoRow THEN "not_found" ELSE "like"])
    /\ UNCHANGED <<seq, link, drive>>

-----------------------------------------------------------------------------
(* Inputs                                                                   *)

\* How far past MinIdLen the modelled identifier runs go.
MaxExtra == 1

IdA == Run("a", MinIdLen)
IdB == Run("a", MinIdLen + 1)

SlashD == <<"/","d","/">>
IdEq == <<"i","d","=">>
View == <<"/","v","i","e","w">>

\* Form values (title, link, name) of POST /upload: a blank title, a
\* missing and a blank link, a link with a short identifier, three shapes of
\* link for IdA, and a link for IdB.
UploadForms ==
    { << <<" ">>, SlashD \o IdA \o View, <<>> >>,
      << <<>>, <<>>, <<>> >>,
      << <<"A","b">>, <<" ">>, <<"a","l">> >>,
      << <<"A","b">>, SlashD \o Run("a", MinIdLen - 1) \o View, <<>> >>,
      << <<" ","A","b","\t">>, SlashD \o IdA \o View, <<" ","a","l">> >>,
      << <<"b","_">>, <<" ">> \o IdA \o <<"\n">>, <<" ">> >>,
      << <<"b","_">>, <<"x","?">> \o IdEq \o IdA, <<"a","l">> >>,
      << <<"A","b">>, IdB, <<>> >> }

\* Ids a view or like request names.
MaxVidId == 2

VidIds == 1..MaxVidId

SortModes == {"recent", "likes", "views"}

SearchTerms ==
    { <<>>, <<" ">>, <<"_">>, <<"%">>, <<"a">>, <<"B">>, <<"b","_">>,
      <<"a","l">>, <<"z">> }

\* The queries of the concurrent specification.
FewTerms == { <<"a","l">> }

FewSortModes == {"likes"}

\* Link Resolver inputs: prefix, identifier-like body, suffix.
Cycle5 == <<"A","z","0","_","-">>

Bodies(n) ==
    { Run("a", n),
      [i \in 1..n |-> Cycle5[(i % 5) + 1]],
      Run("a", n - 1) \o <<".">> \o Run("Z", n - 1) }

BodyLens == {1} \cup ((MinIdLen - 1)..(MinIdLen + MaxExtra))

Prefixes ==
    { <<>>, <<" ">>, SlashD, IdEq, <<"x","?">> \o IdEq,
      <<"/","d">>, <<"d","/">>,
      <<"f","i","l","e">> \o SlashD,
      <<"d","r","i","v","e",".","g","o","o","g","l","e",".","c","o","m",
        "/","o","p","e","n","?">> \o IdEq,
      <<"h","t","t","p","s",":","/","/","d","r","i","v","e",".",
        "g","o","o","g","l","e",".","c","o","m","/","f","i","l","e">>
        \o SlashD }

Suffixes ==
    { <<>>, <<" ">>, View, <<"\n">>,
      <<"?">> \o IdEq \o Run("b", MinIdLen),
      SlashD \o Run("b", MinIdLen - 1),
      SlashD \o Run("b", MinIdLen + MaxExtra) }

LinkInputs ==
    { <<>>, <<" ">>, <<" ","\t","\n">>,
      <<"n","o","t","-","a","-","l","i","n","k">> }
    \cup { pre \o body \o suf :
             pre \in Prefixes, body \in UNION {Bodies(n) : n \in BodyLens},
             suf \in Suffixes }

\* The resolver's result before it has been called.
Pending == <<"pending">>

-----------------------------------------------------------------------------
(* Catalogs an earlier run of the application can have left in videos.db:    *)
(* n uploads of distinct links, then likes.                                  *)

\* Rows in a stored catalog.
MaxCatalog == 12

\* Likes of a stored row.
MaxLikes == 2

TitlePool == << <<"A","b">>, <<"b","_">>, <<"c"," ","d">> >>

UploaderPool == << <<"a","l">>, NULL, <<"B","o">> >>

\* The uploader of row i: blocks of d rows cycling through m uploaders of
\* the pool, starting at the k-th.
UploaderOf(i, d, m, k) == UploaderPool[((((i \div d) % m) + k) % 3) + 1]

CatalogRow(i, d, m, k, a) ==
    [id |-> i, title |-> TitlePool[(i % 3) + 1],
     drive_id |-> Run("a", MinIdLen + i),
     uploader |-> UploaderOf(i, d, m, k),
     likes |-> (i * a) % (MaxLikes + 1), views |-> 0]

Catalogs ==
    { {CatalogRow(i, d, m, k, a) : i \in 1..n} :
        n \in 0..MaxCatalog, d \in 1..3, m \in 1..3, k \in 0..2,
        a \in 0..MaxLikes }

-----------------------------------------------------------------------------
(* Specifications                                                           *)

InitReqs ==
    /\ pc = [r \in Reqs |-> "idle"]
    /\ req = [r \in Reqs |-> NoReq]
    /\ local = [r \in Reqs |-> NoLocal]
    /\ resp = [r \in Reqs |-> NoResp]

\* init_db() on a fresh videos.db: the empty table.
Init ==
    /\ videos = {}
    /\ seq = 0
    /\ InitReqs
    /\ link = <<>>
    /\ drive = Pending

Next ==
    \E r \in Reqs :
        \/ \E search \in FewTerms, sort \in FewSortModes :
               home(r, search, sort)
        \/ UploadGet(r)
        \/ \E form \in UploadForms :
               UploadCheck(r, form[1], form[2], form[3])
        \/ UploadInsert(r)
        \/ \E vid_id \in VidIds : ViewFetch(r, vid_id)
        \/ ViewUpdate(r)
        \/ ViewReread(r)
        \/ ViewSame(r)
        \/ ViewFill(r)
        \/ \E vid_id \in VidIds : RegisterLike(r, vid_id)

Spec == Init /\ [][Next]_vars

\* init_db() on an existing videos.db; one request against it.
InitCatalog ==
    /\ videos \in Catalogs
    /\ seq = Cardinality(videos)
    /\ InitReqs
    /\ link = <<>>
    /\ drive = Pending

NextCatalog ==
    \/ \E search \in SearchTerms, sort \in SortModes : home(1, search, sort)
    \/ \E vid_id \in 1..(MaxCatalog + 1) : ViewFetch(1, vid_id)
    \/ ViewUpdate(1)
    \/ ViewReread(1)
    \/ ViewSame(1)
    \/ ViewFill(1)

SpecCatalog == InitCatalog /\ [][NextCatalog]_vars

\* The resolver applied to one input.
InitResolver ==
    /\ videos = {}
    /\ seq = 0
    /\ InitReqs
    /\ link \in LinkInputs
    /\ drive = Pending

Resolve ==
    /\ drive = Pending
    /\ drive' = extract_drive_id(link)
    /\ UNCHANGED <<videos, seq, pc, req, local, resp, link>>

SpecResolver == InitResolver /\ [][Resolve]_vars

-----------------------------------------------------------------------------
(* Properties                                                               *)

\* Request r takes the first step of a handler for `op` in this step.
Begins(r, op) == pc[r] = "idle" /\ pc'[r] # "idle" /\ req'[r].op = op

\* Request r is a POST /upload taking its first step.
BeginsPost(r) == Begins(r, "upload") /\ req'[r].method = "POST"

\* C1: no two stored records have the same driveId, in every reachable
\* state, under any interleaving of concurrent uploads.
C1_UniqueDriveId ==
    \A v \in videos : \A w \in videos : v.drive_id = w.drive_id => v = w

\* C2: an upload with a non-empty title and a link that resolves to the
\* driveId of a stored record ends with the duplicate outcome and leaves the
\* store unchanged.
C2_DuplicateRejected ==
    [][\A r \in Reqs :
          (/\ BeginsPost(r)
           /\ Strip(req'[r].title) # <<>>
           /\ \E v \in videos :
                 v.drive_id = extract_drive_id(Strip(req'[r].link)))
          => (/\ pc'[r] = "done"
              /\ resp'[r].kind = "upload_form"
              /\ resp'[r].error = ErrDuplicate
              /\ videos' = videos)]_vars

\* C2 witness: a duplicate outcome for a link of another shape than the
\* link that stored the identifier.
C2_Witness ==
    \E r \in Reqs : \E q \in Reqs :
        /\ resp[r].error = ErrDuplicate
        /\ resp[q].kind = "redirect"
        /\ req[q].link # req[r].link
        /\ extract_drive_id(Strip(req[q].link))
             = extract_drive_id(Strip(req[r].link))

\* The view requests for id that have committed their increment.
ViewsCommitted(id) ==
    {r \in Reqs :
        /\ req[r].op = "view"
        /\ req[r].vid_id = id
        /\ \/ pc[r] \in {"view_updated", "view_reread", "view_same"}
           \/ pc[r] = "done" /\ resp[r].kind = "view"}

\* C3: a record's views equals the number of successful view requests for
\* it, however the requests interleave: none is lost or counted twice.
C3_ViewsCounted ==
    \A v \in videos : v.views = Cardinality(ViewsCommitted(v.id))

\* C3 witness: two view requests that both read the record before either
\* incremented it, both increments committed.
C3_Witness ==
    \E r \in Reqs : \E q \in Reqs :
        /\ r # q
        /\ pc[r] = "view_updated" /\ pc[q] = "view_updated"
        /\ req[r].vid_id = req[q].vid_id
        /\ local[r].row.views = 0 /\ local[q].row.views = 0

\* C4: an upload fails, adding and changing no record, with the empty-title
\* outcome when the trimmed title is empty, else the empty-link outcome when
\* the trimmed link is empty, else the invalid-link outcome when the
\* resolver rejects the link; the four error outcomes are distinct.
C4_ValidationOrder ==
    [][/\ Cardinality({ErrTitle, ErrLink, ErrInvalid, ErrDuplicate}) = 4
       /\ \A r \in Reqs :
            BeginsPost(r) =>
              LET t == Strip(req'[r].title)
                  l == Strip(req'[r].link)
                  rejected == /\ pc'[r] = "done"
                              /\ resp'[r].kind = "upload_form"
                              /\ videos' = videos
              IN  /\ t = <<>> => rejected /\ resp'[r].error = ErrTitle
                  /\ t # <<>> /\ l = <<>>
                       => rejected /\ resp'[r].error = ErrLink
                  /\ t # <<>> /\ l # <<>> /\ extract_drive_id(l) = NULL
                       => rejected /\ resp'[r].error = ErrInvalid]_vars

\* C4 witness: the three outcomes, the empty-title one for a form whose
\* link is empty too.
C4_Witness ==
    \E r1 \in Reqs : \E r2 \in Reqs : \E r3 \in Reqs :
        /\ resp[r1].error = ErrTitle /\ Strip(req[r1].link) = <<>>
        /\ resp[r2].error = ErrLink
        /\ resp[r3].error = ErrInvalid

\* C5: a successful upload adds exactly one record, with likes = 0,
\* views = 0, the resolved identifier as driveId and an id greater than
\* every id assigned before; every other record is left unchanged.
C5_InsertOne ==
    [][\A r \in Reqs :
          /\ BeginsPost(r) => videos' = videos
          /\ (pc[r] = "upload_checked" /\ pc'[r] # "upload_checked")
               => /\ resp'[r].kind = "redirect"
                  /\ \E row \in videos' :
                       /\ row \notin videos
                       /\ videos' = videos \cup {row}
                       /\ row.likes = 0 /\ row.views = 0
                       /\ row.drive_id = extract_drive_id(Strip(req[r].link))
                       /\ row.title = Strip(req[r].title)
                       /\ row.id > seq
                       /\ \A v \in videos : row.id > v.id]_vars

\* C5 witness: a second record stored after a first one.
C5_Witness ==
    \E r \in Reqs :
        /\ resp[r].kind = "redirect"
        /\ \E v \in videos : \E w \in videos :
              v.id < w.id /\ v.drive_id # w.drive_id

\* The store after one more view of record id and no other change.
OneMoreView(id) ==
    {IF v.id = id THEN [v EXCEPT !.views = @ + 1] ELSE v : v \in videos}

\* C6: a view request for a stored id increases that record's views by
\* exactly 1 and changes nothing else; a view request for an unknown id
\* returns not-found and changes nothing.
C6_ViewFrame ==
    [][\A r \in Reqs :
          (pc'[r] # pc[r] /\ req'[r].op = "view") =>
            /\ (\E v \in videos : v.id = req'[r].vid_id)
                  <=> ~(pc'[r] = "done" /\ resp'[r].kind = "not_found")
            /\ IF pc'[r] = "view_updated"
               THEN /\ videos' = OneMoreView(req'[r].vid_id)
                    /\ videos' # videos
               ELSE videos' = videos
            /\ (pc'[r] = "done" /\ resp'[r].kind = "view")
                  => pc[r] = "view_same"]_vars

\* C6 witness: a rendered view page and a not-found view.
C6_Witness ==
    \E r \in Reqs : \E q \in Reqs :
        /\ req[r].op = "view" /\ resp[r].kind = "view"
        /\ req[q].op = "view" /\ resp[q].kind = "not_found"

\* The rows of a fetched row list.
RowsOf(rows) == {rows[i] : i \in 1..Len(rows)}

\* s with the case of its ASCII letters folded.
Fold(s) == [i \in 1..Len(s) |-> Lower(s[i])]

\* Record v has term as a substring of its title or of its uploader, read
\* the way most favourable to the handler: case folded, the term trimmed.
HasTerm(v, term) ==
    \/ Contains(Fold(v.title), Fold(Strip(term)))
    \/ v.uploader # NULL /\ Contains(Fold(v.uploader), Fold(Strip(term)))

\* C7: List returns exactly the stored records whose title or uploader
\* contains the search term as a substring (every record for the empty
\* term, none for a term contained in no title and no uploader).
C7_ListBySubstring ==
    [][\A r \in Reqs :
          Begins(r, "home") =>
            RowsOf(resp'[r].videos)
              = {v \in videos : HasTerm(v, req'[r].search)}]_vars

\* C8: List is ordered by strictly descending id unless sortMode is
\* "likes", and then by descending likes, ties by descending id; no record
\* appears twice.
C8_ListOrder ==
    [][\A r \in Reqs :
          Begins(r, "home") =>
            LET rows == resp'[r].videos
            IN  \A i \in 1..Len(rows) : \A j \in 1..Len(rows) :
                  i < j =>
                    /\ rows[i] # rows[j]
                    /\ IF req'[r].sort = "likes"
                       THEN \/ rows[i].likes > rows[j].likes
                            \/ /\ rows[i].likes = rows[j].likes
                               /\ rows[i].id > rows[j].id
                       ELSE rows[i].id > rows[j].id]_vars

\* C8 witness: a list sorted by likes with a tie and with a row of smaller
\* id ahead of one of larger id.
C8_Witness ==
    \E r \in Reqs :
        /\ resp[r].kind = "home" /\ req[r].sort = "likes"
        /\ LET rows == resp[r].videos
           IN  \E i \in 1..Len(rows) : \E j \in 1..Len(rows) :
                 \E k \in 1..Len(rows) :
                   /\ i < j /\ rows[i].likes = rows[j].likes
                   /\ i < k /\ rows[i].id < rows[k].id

\* The rows of S in descending id order, by rank.
DescById(S) ==
    [i \in 1..Cardinality(S) |->
        CHOOSE v \in S : Cardinality({w \in S : w.id > v.id}) = i - 1]

\* The first n elements of s, all of them when there are fewer.
Take(s, n) == [i \in 1..(IF Len(s) < n THEN Len(s) ELSE n) |-> s[i]]

\* The records other than the target that have the target's non-null
\* uploader.
SameGroup(id) ==
    {v \in videos :
        /\ v.id # id
        /\ \E t \in videos :
              t.id = id /\ t.uploader # NULL /\ v.uploader = t.uploader}

\* The reference watch-next sequence of the stored record id.
ReferenceWatchNext(id) ==
    LET others == {v \in videos : v.id # id}
        first == Take(DescById(SameGroup(id)), 10)
        rest == DescById(others \ RowsOf(first))
    IN  Take(first \o rest,
             IF Cardinality(others) < 10 THEN Cardinality(others) ELSE 10)

\* C9: the watch-next list of a view page is the reference sequence: the
\* target's uploader's other records, newest first, then the remaining
\* other records, newest first, 10 at most; never the target, no record
\* twice.
C9_WatchNext ==
    [][\A r \in Reqs :
          (pc[r] = "view_same" /\ pc'[r] = "done") =>
            LET wn == resp'[r].watch_next
            IN  /\ wn = ReferenceWatchNext(req[r].vid_id)
                /\ \A i \in 1..Len(wn) : wn[i].id # req[r].vid_id
                /\ \A i \in 1..Len(wn) : \A j \in 1..Len(wn) :
                      i # j => wn[i].id # wn[j].id]_vars

\* C9 witness: a full list for a target whose uploader has between 1 and 9
\* other records, the rest filled from a catalog of more than 11.
C9_Witness ==
    \E r \in Reqs :
        /\ resp[r].kind = "view"
        /\ Len(resp[r].watch_next) = 10
        /\ Cardinality(videos) > 11
        /\ Cardinality(SameGroup(req[r].vid_id)) \in 1..9

\* At least MinIdLen identifier characters follow an occurrence of lit in s.
LongRunAfter(lit, s) ==
    \E i \in 1..Len(s) :
        /\ i + Len(lit) + MinIdLen - 1 <= Len(s)
        /\ \A k \in 1..Len(lit) : s[i + k - 1] = lit[k]
        /\ \A k \in 0..(MinIdLen - 1) : s[i + Len(lit) + k] \in IdChars

\* C10: the resolver rejects or returns at least 25 identifier characters
\* that occur contiguously in the input; it rejects blank input, and input
\* with no 25-character run after "/d/" or "id=" and a trimmed length
\* under 25.
C10_ResolverSound ==
    drive # Pending =>
      /\ \/ drive = NULL
         \/ /\ Len(drive) >= 25
            /\ \A i \in 1..Len(drive) : drive[i] \in IdChars
            /\ Contains(link, drive)
      /\ (\A i \in 1..Len(link) : link[i] \in Whitespace) => drive = NULL
      /\ (/\ ~LongRunAfter(SlashD, link)
          /\ ~LongRunAfter(IdEq, link)
          /\ Len(Strip(link)) < 25) => drive = NULL

\* C10 witness: a well-formed file/d/ link whose identifier has 24
\* characters, rejected.
C10_Witness ==
    /\ drive = NULL
    /\ Contains(link, <<"f","i","l","e">> \o SlashD \o Run("a", 24) \o View)
    /\ ~Contains(link, Run("a", 25))

\* C11: once a record exists it is never removed, its id, title, driveId
\* and uploader never change, and its likes and views never decrease.
C11_RecordsKept ==
    [][\A v \in videos :
          \E w \in videos' :
              /\ w.id = v.id
              /\ w.title = v.title
              /\ w.drive_id = v.drive_id
              /\ w.uploader = v.uploader
              /\ w.likes >= v.likes
              /\ w.views >= v.views]_vars

\* C11 witness: a record liked while a view of it was between its SELECT
\* and its UPDATE, the view then committed.
C11_Witness ==
    \E r \in Reqs : \E v \in videos :
        /\ req[r].op = "view" /\ req[r].vid_id = v.id
        /\ pc[r] = "view_updated"
        /\ local[r].row.likes = 0
        /\ v.likes = 1 /\ v.views = 1

\* The view requests for id that have returned their page.
ViewsReturned(id) ==
    {r \in Reqs :
        /\ req[r].op = "view" /\ req[r].vid_id = id
        /\ pc[r] = "done" /\ resp[r].kind = "view"}

\* C12: each successful view returns the count its own increment produced,
\* also when other views of the record commit before its re-read: once the
\* N views of a record created with views = 0 have all returned, their
\* counts are the N distinct values 1 .. N.
C12_DistinctCounts ==
    \A v \in videos :
        ViewsCommitted(v.id) = ViewsReturned(v.id) =>
          {resp[r].updated_views : r \in ViewsReturned(v.id)}
            = 1..Cardinality(ViewsReturned(v.id))

====
